---- MODULE Spec2Model ----
(***************************************************************************)
(* mpc_sqr (src/src/sqr.c): correctly rounded squaring of a complex number *)
(* z = x + iy, and its helper mpfr_fmma (a*b +/- c*d).                      *)
(*                                                                         *)
(* The arbitrary-precision reals of the MPFR library are modelled exactly: *)
(* a value is NaN, a signed infinity, a signed zero or s * m * 2^e with m  *)
(* an odd positive integer; a precision-p variable holds only values whose *)
(* m has at most p bits and whose MPFR exponent E = e + BitLen(m) lies in  *)
(* [Emin, Emax].  There are no subnormals.  Every MPFR primitive returns   *)
(* the exact result rounded once, its ternary value (sign of stored minus  *)
(* exact) and whether it raised the underflow flag.                        *)
(***************************************************************************)
EXTENDS Integers, Sequences, FiniteSets, TLC

\* ------------------------------------------------------------------ bounds
\* exponent range of the MPFR build: [Emin, Emax] = [-EminMag, EmaxV]
EminMag == 2
EmaxV == 2
\* precisions of the operand's components go up to PrecOpMax
PrecOpMax == 4
\* precisions of the result's components go up to PrecRopMax
PrecRopMax == 2
Emin == 0 - EminMag
Emax == EmaxV

\* rounding modes: nearest, toward zero, up, down, away from zero
RndModes == {"N", "Z", "U", "D", "A"}

\* ------------------------------------------------------- integer helpers
Pow2(n) == 2 ^ n

RECURSIVE BitLen(_)
BitLen(m) == IF m = 0 THEN 0 ELSE 1 + BitLen(m \div 2)

RECURSIVE TrailingZeros(_)
TrailingZeros(m) == IF m % 2 = 1 THEN 0 ELSE 1 + TrailingZeros(m \div 2)

Abs(i) == IF i < 0 THEN 0 - i ELSE i
Max(i, j) == IF i >= j THEN i ELSE j
Min(i, j) == IF i <= j THEN i ELSE j
Sgn(i) == IF i > 0 THEN 1 ELSE IF i < 0 THEN 0 - 1 ELSE 0

\* the element of a one-element set.  An intermediate result is computed
\* once by drawing it from a one-element set, as in Only({F(r) : r \in {e}})
Only(S) == CHOOSE o \in S : TRUE

\* ---------------------------------------------------------------- values
NaN == [k |-> "nan", s |-> 1, m |-> 0, e |-> 0]
Inf(s) == [k |-> "inf", s |-> s, m |-> 0, e |-> 0]
Zero(s) == [k |-> "zero", s |-> s, m |-> 0, e |-> 0]

\* s * m * 2^e, m > 0, with the trailing zeros of m moved to the exponent
Num(s, m, e) ==
  LET t == TrailingZeros(m)
  IN  [k |-> "num", s |-> s, m |-> m \div Pow2(t), e |-> e + t]

\* the exact real sg * m * 2^e for any integer m >= 0
Exact(s, m, e) == IF m = 0 THEN Zero(1) ELSE Num(s, m, e)

IsNan(v) == v.k = "nan"
IsInf(v) == v.k = "inf"
IsZero(v) == v.k = "zero"
IsNum(v) == v.k = "num"
\* mpfr_number_p
IsFin(v) == v.k \in {"zero", "num"}
\* MPFR_SIGN / mpfr_signbit
SignBit(v) == v.s < 0
\* mpfr_sgn
MpfrSgn(v) == IF v.k = "zero" THEN 0 ELSE v.s
\* mpfr_get_exp of a regular number: 2^(E-1) <= |v| < 2^E
ExpOf(v) == v.e + BitLen(v.m)
Neg(v) == IF v.k = "nan" THEN v ELSE [v EXCEPT !.s = 0 - v.s]

\* ----------------------------------------------- exact dyadic arithmetic
\* (arguments are zero or regular numbers; results are exact reals)
ExMul(a, b) ==
  IF a.k = "zero" \/ b.k = "zero" THEN Zero(1)
  ELSE Num(a.s * b.s, a.m * b.m, a.e + b.e)

\* a as a signed integer count of units 2^e0 (e0 <= a.e)
Units(a, e0) == IF a.k = "zero" THEN 0 ELSE a.s * a.m * Pow2(a.e - e0)

ExAdd(a, b) ==
  IF a.k = "zero" THEN b
  ELSE IF b.k = "zero" THEN a
  ELSE LET e0 == Min(a.e, b.e)
           t == Units(a, e0) + Units(b, e0)
       IN  Exact(Sgn(t), Abs(t), e0)

ExSub(a, b) == ExAdd(a, Neg(b))

\* sign of a - b for exact reals
ExCmp(a, b) == LET d == ExSub(a, b) IN IF d.k = "zero" THEN 0 ELSE d.s

Scale(a, n) == IF a.k = "num" THEN [a EXCEPT !.e = a.e + n] ELSE a

\* ---------------------------------------------------------------- rounding
\* direction in which mode rnd moves a number of sign s: toward zero
\* ("trunc"), away from zero ("away") or to the nearest, ties to even ("near")
RndDir(rnd, s) ==
  CASE rnd = "Z" -> "trunc"
    [] rnd = "A" -> "away"
    [] rnd = "U" -> IF s > 0 THEN "away" ELSE "trunc"
    [] rnd = "D" -> IF s > 0 THEN "trunc" ELSE "away"
    [] OTHER -> "near"

\* MPFR_IS_LIKE_RNDZ
LikeRndZ(rnd, s) == RndDir(rnd, s) = "trunc"

\* the regular number x, whose significand has n bits, cut to p < n bits
RoundBits(x, p, rnd, n) ==
  LET kk == n - p
      q == x.m \div Pow2(kk)
      r == x.m % Pow2(kk)
      half == Pow2(kk - 1)
      dir == RndDir(rnd, x.s)
      up == CASE dir = "trunc" -> FALSE
              [] dir = "away" -> r > 0
              [] OTHER -> r > half \/ (r = half /\ q % 2 = 1)
  IN  IF up THEN [v |-> Num(x.s, q + 1, x.e + kk), t |-> x.s]
      ELSE [v |-> Num(x.s, q, x.e + kk), t |-> 0 - x.s]

\* the regular number x rounded to p bits with an unbounded exponent:
\* [v: the rounded number, t: the ternary value, sign of (v - x)]
RoundUnb(x, p, rnd) ==
  Only({ IF n <= p THEN [v |-> x, t |-> 0] ELSE RoundBits(x, p, rnd, n) :
         n \in {BitLen(x.m)} })

\* largest and smallest positive numbers of precision p
MaxNum(s, p) == Num(s, Pow2(p) - 1, Emax - p)
MinNum(s) == Num(s, 1, Emin - 1)

\* mpfr_overflow: infinity, or the largest finite number when rnd rounds
\* a number of sign s toward zero
Overflow(s, p, rnd) ==
  IF LikeRndZ(rnd, s)
  THEN [v |-> MaxNum(s, p), t |-> 0 - s, uf |-> FALSE]
  ELSE [v |-> Inf(s), t |-> s, uf |-> FALSE]

\* mpfr_underflow: zero when rnd rounds a number of sign s toward zero,
\* otherwise the smallest nonzero number; raises the underflow flag
Underflow(s, rnd) ==
  IF LikeRndZ(rnd, s)
  THEN [v |-> Zero(s), t |-> 0 - s, uf |-> TRUE]
  ELSE [v |-> MinNum(s), t |-> s, uf |-> TRUE]

\* r, the exact real x rounded with an unbounded exponent, brought into the
\* exponent range.  Overflow and underflow are detected after rounding; to
\* nearest, an underflowing |x| <= 2^(Emin-2) goes to zero and a larger one
\* to the smallest nonzero number.
InRange(x, r, p, rnd) ==
  IF ExpOf(r.v) > Emax THEN Overflow(x.s, p, rnd)
  ELSE IF ExpOf(r.v) < Emin
  THEN IF rnd = "N" /\ (ExpOf(x) < Emin - 1
                        \/ (x.m = 1 /\ ExpOf(x) = Emin - 1))
       THEN Underflow(x.s, "Z")
       ELSE Underflow(x.s, rnd)
  ELSE [v |-> r.v, t |-> r.t, uf |-> FALSE]

\* the exact real x (zero or regular) rounded once to p bits in mode rnd
\* within the exponent range: [v, t, uf]
RoundTo(x, p, rnd) ==
  IF x.k = "zero" THEN [v |-> x, t |-> 0, uf |-> FALSE]
  ELSE Only({ InRange(x, r, p, rnd) : r \in {RoundUnb(x, p, rnd)} })

\* ------------------------------------------------------- MPFR primitives
\* each returns [v: stored value, t: ternary value, uf: underflow raised]
Res(v) == [v |-> v, t |-> 0, uf |-> FALSE]

\* sign of an exact zero sum of two nonzero terms: +0, or -0 rounding down
ZeroSum(rnd) == IF rnd = "D" THEN Zero(0 - 1) ELSE Zero(1)

\* mpfr_add (z, a, b, rnd) with z of precision p
MpfrAdd(a, b, p, rnd) ==
  IF IsNan(a) \/ IsNan(b) THEN Res(NaN)
  ELSE IF IsInf(a) THEN (IF IsInf(b) /\ b.s # a.s THEN Res(NaN) ELSE Res(a))
  ELSE IF IsInf(b) THEN Res(b)
  ELSE IF IsZero(a) /\ IsZero(b)
       THEN (IF a.s = b.s THEN Res(a) ELSE Res(ZeroSum(rnd)))
  ELSE Only({ IF IsZero(x) THEN Res(ZeroSum(rnd)) ELSE RoundTo(x, p, rnd) :
              x \in {ExAdd(a, b)} })

\* mpfr_sub (z, a, b, rnd)
MpfrSub(a, b, p, rnd) == Only({ MpfrAdd(a, nb, p, rnd) : nb \in {Neg(b)} })

\* mpfr_mul (z, a, b, rnd)
MpfrMul(a, b, p, rnd) ==
  IF IsNan(a) \/ IsNan(b) THEN Res(NaN)
  ELSE IF IsInf(a) \/ IsInf(b)
       THEN (IF IsZero(a) \/ IsZero(b) THEN Res(NaN) ELSE Res(Inf(a.s * b.s)))
  ELSE IF IsZero(a) \/ IsZero(b) THEN Res(Zero(a.s * b.s))
  ELSE Only({ RoundTo(x, p, rnd) : x \in {ExMul(a, b)} })

\* mpfr_sqr (z, a, rnd)
MpfrSqr(a, p, rnd) ==
  IF IsNan(a) THEN Res(NaN)
  ELSE IF IsInf(a) THEN Res(Inf(1))
  ELSE IF IsZero(a) THEN Res(Zero(1))
  ELSE Only({ RoundTo(x, p, rnd) : x \in {ExMul(a, a)} })

\* mpfr_set (z, a, rnd)
MpfrSet(a, p, rnd) == IF IsNum(a) THEN RoundTo(a, p, rnd) ELSE Res(a)

\* mpfr_mul_2ui (z, z, n, rnd) and mpfr_mul_2exp: z * 2^n, z of precision p
MpfrMul2ui(a, n, p, rnd) ==
  IF IsNum(a) THEN Only({ RoundTo(x, p, rnd) : x \in {Scale(a, n)} })
  ELSE Res(a)

\* mpfr_div_2ui (z, z, n, rnd): z / 2^n
MpfrDiv2ui(a, n, p, rnd) ==
  IF IsNum(a) THEN Only({ RoundTo(x, p, rnd) : x \in {Scale(a, 0 - n)} })
  ELSE Res(a)

\* mpfr_set_exp (x, e): refused (x unchanged) unless x is a regular number
\* and e lies in the exponent range
MpfrSetExp(a, e) ==
  IF IsNum(a) /\ e >= Emin /\ e <= Emax
  THEN [a EXCEPT !.e = e - BitLen(a.m)] ELSE a

\* mpfr_can_round (b, err, rnd1, GMP_RNDZ, prec): b approximates an unknown x
\* with error at most 2^(E(b)-err) on the side rnd1 says (rounded up: x <= b,
\* rounded down: x >= b; either way |x| <= |b| in the two calls made);
\* true iff every such x truncates to the same prec-bit number
MpfrCanRound(b, err, prec) ==
  /\ IsNum(b)
  /\ \E hi \in {[b EXCEPT !.s = 1]} :
       \E lo \in {ExSub(hi, Num(1, 1, ExpOf(b) - err))} :
         /\ IsNum(lo) /\ lo.s > 0
         /\ RoundUnb(lo, prec, "Z").v = RoundUnb(hi, prec, "Z").v

\* the C operator | on two ternary values, by sign: two's complement makes
\* the result negative when either operand is, else positive when either is
TerOr(i, j) ==
  IF i < 0 \/ j < 0 THEN 0 - 1 ELSE IF i > 0 \/ j > 0 THEN 1 ELSE 0

\* ------------------------------------------------------------- mpfr_fmma
\* lines 123-127 and 148-152: the result of the rescaled addition r1 and of
\* the shift back r2, whose ternary value wins when it is not zero
FmmaRescued(r1, r2) ==
  [v |-> r2.v, t |-> IF r2.t # 0 THEN r2.t ELSE r1.t, uf |-> r1.uf \/ r2.uf]

\* the exponent rescue when z is NaN (both products overflowed, with
\* opposite signs): u and v are the normalised products, eu and ev the
\* exponents removed from them
FmmaOverflowRescue(u, v, eu, ev, pz, rnd) ==
  LET big == eu >= ev
      rest == IF big THEN eu - Emax ELSE ev - Emax
  IN  Only({ Only({ Only({ FmmaRescued(r1, r2) :
                           r2 \in {MpfrMul2ui(r1.v, Abs(rest), pz, rnd)} }) :
                    r1 \in {MpfrAdd(u3, v3, pz, rnd)} }) :
             u3 \in {IF big THEN MpfrSetExp(u, Emax)
                     ELSE MpfrSetExp(u, Abs(eu - (ev - Emax)))},
             v3 \in {IF big THEN MpfrSetExp(v, Abs(ev - (eu - Emax)))
                     ELSE MpfrSetExp(v, Emax)} })

\* the exponent rescue when z is a number or a zero
FmmaUnderflowRescue(u, v, eu, ev, pz, rnd) ==
  LET small == eu <= ev
      rest == IF small THEN eu - Emin ELSE ev - Emin
  IN  Only({ Only({ Only({ FmmaRescued(r1, r2) :
                           r2 \in {MpfrDiv2ui(r1.v, Abs(0 - rest), pz, rnd)} }) :
                    r1 \in {MpfrAdd(u3, v3, pz, rnd)} }) :
             u3 \in {IF small THEN MpfrSetExp(u, Emin)
                     ELSE MpfrSetExp(u, eu - (ev - Emin))},
             v3 \in {IF small THEN MpfrSetExp(v, ev - (eu - Emin))
                     ELSE MpfrSetExp(v, Emin)} })

\* lines 47-50 and 93-95: c * d rounded to nearest into a variable of
\* precision p, negated when sign < 0
SignedMul(c, d, p, sign) ==
  Only({ IF sign < 0 THEN [m EXCEPT !.v = Neg(m.v)] ELSE m :
         m \in {MpfrMul(c, d, p, "N")} })

\* lines 65-154: the computation redone on the operands a0, b0, c0, d0
\* normalised to exponent 0; z is the tentative sum
FmmaRescue(a, b, c, d, a0, b0, c0, d0, pa, pb, pc, pd, sign, pz, rnd, z) ==
  Only({ Only({ IF IsNan(z)
                THEN FmmaOverflowRescue(u2, v2, eu, ev, pz, rnd)
                ELSE FmmaUnderflowRescue(u2, v2, eu, ev, pz, rnd) :
                u2 \in {MpfrSetExp(m1.v, 0)},
                v2 \in {MpfrSetExp(m2.v, 0)},
                eu \in {ExpOf(a) + ExpOf(b) + ExpOf(m1.v)},
                ev \in {ExpOf(c) + ExpOf(d) + ExpOf(m2.v)} }) :
         m1 \in {MpfrMul(a0, b0, pa + pb, "N")},
         m2 \in {SignedMul(c0, d0, pc + pd, sign)} })

\* lines 56-163: what mpfr_fmma returns, from the products mu and mv and
\* their tentative sum r
FmmaResult(a, b, c, d, pa, pb, pc, pd, sign, pz, rnd, mu, mv, r) ==
  LET uf0 == mu.uf \/ mv.uf \/ r.uf
  IN  IF IsInf(r.v)
      THEN Only({ [v |-> o.v, t |-> o.t, uf |-> uf0] :
                  o \in {MpfrMul2ui(Num(r.v.s, 1, 0), Emax, pz, rnd)} })
      ELSE IF IsInf(mu.v) \/ IsInf(mv.v) \/ IsZero(mu.v) \/ IsZero(mv.v)
      THEN Only({ Only({ [v |-> q.v, t |-> q.t, uf |-> uf0 \/ q.uf] :
                         q \in {FmmaRescue(a, b, c, d, a0, b0, c0, d0, pa, pb,
                                           pc, pd, sign, pz, rnd, r.v)} }) :
                  a0 \in {MpfrSetExp(a, 0)}, b0 \in {MpfrSetExp(b, 0)},
                  c0 \in {MpfrSetExp(c, 0)}, d0 \in {MpfrSetExp(d, 0)} })
      ELSE [v |-> r.v, t |-> r.t, uf |-> uf0]

\* mpfr_fmma (z, a, b, c, d, sign, rnd): a, b, c, d regular numbers of
\* precisions pa, pb, pc, pd; z of precision pz.  [v, t, uf]
Fmma(a, b, c, d, pa, pb, pc, pd, sign, pz, rnd) ==
  Only({ Only({ FmmaResult(a, b, c, d, pa, pb, pc, pd, sign, pz, rnd,
                           mu, mv, r) :
                r \in {MpfrAdd(mu.v, mv.v, pz, rnd)} }) :
         mu \in {MpfrMul(a, b, pa + pb, "N")},
         mv \in {SignedMul(c, d, pc + pd, sign)} })

\* ------------------------------------------------- mpc-impl.h helpers
\* INV_RND: up and down exchanged, the other modes kept
InvRnd(rnd) == IF rnd = "U" THEN "D" ELSE IF rnd = "D" THEN "U" ELSE rnd

\* mpc_ceil_log2 (n): the least k with 2^k >= n
RECURSIVE CeilLog2(_)
CeilLog2(n) == IF n <= 1 THEN 0 ELSE 1 + CeilLog2((n + 1) \div 2)

\* the exponent field mpfr_get_exp reads: for a NaN, an infinity or a zero
\* it holds a reserved value below every valid exponent
ExpField(v) ==
  CASE v.k = "num" -> ExpOf(v)
    [] v.k = "inf" -> Emin - 1
    [] v.k = "nan" -> Emin - 2
    [] OTHER -> Emin - 3

\* ------------------------------------------------------------ mpc_sqr
VARIABLES
  inp,    \* the call: operand precisions, result precisions, rounding
          \* modes, and whether rop and op are the same object
  pc,     \* position in mpc_sqr
  mem,    \* the mpfr_t objects: op->re, op->im, rop->re, rop->im, x
  loc,    \* the locals prec, u, v, inexact, ok, inex_re, inex_im
  uflag,  \* MPFR's global underflow flag
  fm      \* a call of mpfr_fmma on its own: arguments and result

vars == <<inp, pc, mem, loc, uflag, fm>>

\* the objects rop->re and rop->im are op->re and op->im when rop == op
RopRe(in) == IF in.alias THEN "op_re" ELSE "rop_re"
RopIm(in) == IF in.alias THEN "op_im" ELSE "rop_im"
\* the real part of op read in place, without a copy
XCellInPlace == "op_re"

\* the object the code reads the real part of op from after line 244
XCell == "x"

\* MPC_MAX_PREC
MaxPrecRop(in) == Max(in.rpre, in.rpim)
MaxPrecOfOp(in) == Max(in.pre, in.pim)

Put(st, cell, val) == [st EXCEPT !.mem[cell] = val]
Raise(st, f) == [st EXCEPT !.uf = st.uf \/ f]

\* the sign of the real part alone
SignOfReal(re, im) == re.s

\* lines 193, 201, 210: MPFR_SIGN (re) * MPFR_SIGN (im)
SignProduct(re, im) == re.s * im.s

\* lines 185-214: NaN and infinities
StepSpecial(in, st) ==
  LET re == st.mem["op_re"]
      im == st.mem["op_im"]
  IN  IF IsNan(re) \/ IsNan(im)
      THEN [Put(Put(st, RopRe(in), NaN), RopIm(in), NaN)
              EXCEPT !.pc = "done", !.loc.inex_re = 0, !.loc.inex_im = 0]
      ELSE IF IsInf(re)
      THEN IF IsInf(im)
           THEN LET s1 == Put(st, RopIm(in), Inf(SignProduct(re, im)))
                IN  [Put(s1, RopRe(in), NaN)
                       EXCEPT !.pc = "done", !.loc.inex_re = 0,
                              !.loc.inex_im = 0]
           ELSE LET s1 == IF IsZero(im) THEN Put(st, RopIm(in), NaN)
                          ELSE Put(st, RopIm(in), Inf(SignProduct(re, im)))
                IN  [Put(s1, RopRe(in), Inf(1))
                       EXCEPT !.pc = "done", !.loc.inex_re = 0,
                              !.loc.inex_im = 0]
      ELSE LET s1 == IF IsZero(re) THEN Put(st, RopIm(in), NaN)
                     ELSE Put(st, RopIm(in), Inf(SignProduct(re, im)))
           IN  [Put(s1, RopRe(in), Inf(0 - 1))
                  EXCEPT !.pc = "done", !.loc.inex_re = 0,
                         !.loc.inex_im = 0]

\* mpc_conj (rop, rop, MPC_RNDNN): the imaginary part negated in place
Conj(in, st) == Put(st, RopIm(in), Neg(st.mem[RopIm(in)]))

\* lines 219-226: the imaginary part of op is a zero
StepAxisIm(in, st) ==
  Only({ LET same == SignBit(st.mem["op_re"]) = SignBit(st.mem["op_im"])
             s1 == Raise(Put(st, RopRe(in), r.v), r.uf)
             s2 == Put(s1, RopIm(in), Zero(1))
             s3 == IF same THEN s2 ELSE Conj(in, s2)
         IN  [s3 EXCEPT !.pc = "done", !.loc.inex_re = r.t, !.loc.inex_im = 0] :
         r \in {MpfrSqr(st.mem["op_re"], in.rpre, in.rnd_re)} })

\* the real rounding mode itself, not inverted
AxisReRndSame(in) == in.rnd_re

\* line 229: the mode in which y^2 is rounded before it is negated
AxisReRnd(in) == InvRnd(in.rnd_re)

\* lines 227-235: the real part of op is a zero
StepAxisRe(in, st) ==
  Only({ LET same == SignBit(st.mem["op_re"]) = SignBit(st.mem["op_im"])
             s1 == Raise(Put(st, RopRe(in), Neg(r.v)), r.uf)
             s2 == Put(s1, RopIm(in), Zero(1))
             s3 == IF same THEN s2 ELSE Conj(in, s2)
         IN  [s3 EXCEPT !.pc = "done", !.loc.inex_re = 0 - r.t,
                        !.loc.inex_im = 0] :
         r \in {MpfrSqr(st.mem["op_im"], in.rpre, AxisReRnd(in))} })

\* lines 216 and 237-243: prec is the larger precision of rop, and x holds
\* the real part of op from here on
StepCopyX(in, st) ==
  [Put(st, "x", st.mem["op_re"])
     EXCEPT !.pc = "real", !.loc.prec = MaxPrecRop(in)]

\* lines 247-249: the exponents of the two parts differ by more than half
\* the larger precision of op
Skewed(in, st) ==
  Abs(ExpField(st.mem["op_re"]) - ExpField(st.mem["op_im"]))
    > MaxPrecOfOp(in) \div 2

\* lines 256-257: the real part by mpfr_fmma (x, x, y, y, -1)
StepRealFmma(in, st) ==
  Only({ [Raise(Put(st, RopRe(in), r.v), r.uf)
            EXCEPT !.pc = "imag", !.loc.inex_re = r.t] :
         r \in {Fmma(st.mem[XCell], st.mem[XCell], st.mem["op_im"],
                     st.mem["op_im"], in.pre, in.pre, in.pim, in.pim, 0 - 1,
                     in.rpre, in.rnd_re)} })

\* lines 304-312 and 345-353: the end of an iteration whose product u
\* (rounded away from zero, inexact recording every rounding so far) is a
\* regular number: round it to rop->re if that is safe, else loop
LoopRound(in, st, u, inexact, p) ==
  Only({ LET s0 == [st EXCEPT !.loc.prec = p, !.loc.u = u,
                              !.loc.inexact = inexact, !.loc.ok = ok]
         IN  IF ok
             THEN [Raise(Put(s0, RopRe(in), r.v), r.uf)
                     EXCEPT !.pc = "imag",
                            !.loc.inex_re = IF r.t = 0 THEN inexact ELSE r.t]
             ELSE [s0 EXCEPT !.pc = "loop"] :
         ok \in {inexact = 0
                 \/ MpfrCanRound(u, p - 3,
                                 in.rpre + (IF in.rnd_re = "N" THEN 1 ELSE 0))},
         r \in {MpfrSet(u, in.rpre, in.rnd_re)} })

\* lines 291-313: u * v > 0; rm is the product rounded up
LoopPositive(in, st, v0, inexact0, p, rm) ==
  LET inexact == TerOr(inexact0, rm.t)
      s0 == Raise([st EXCEPT !.loc.prec = p, !.loc.u = rm.v, !.loc.v = v0,
                             !.loc.inexact = inexact], rm.uf)
  IN  IF ExpField(rm.v) = Emin
      THEN [s0 EXCEPT !.pc = "abort"]
      ELSE IF IsInf(rm.v)
      THEN Only({ [Put(s0, RopRe(in), o.v)
                     EXCEPT !.pc = "imag", !.loc.inex_re = o.t] :
                  o \in {RoundTo(Num(1, 1, Emax), in.rpre, in.rnd_re)} })
      ELSE LoopRound(in, s0, rm.v, inexact, p)

\* lines 320-326 and 348-353: u * v < 0 overflowed; o is -2^emax in the
\* working precision and r its copy in rop->re
LoopNegativeOverflow(in, st, inexact, o, r) ==
  [Put([st EXCEPT !.loc.u = o.v], RopRe(in), r.v)
     EXCEPT !.pc = "imag", !.loc.ok = TRUE,
            !.loc.inex_re = IF r.t = 0 THEN inexact ELSE r.t]

\* lines 314-354: u * v < 0; rm is the product rounded down
LoopNegative(in, st, v0, inexact0, p, rm) ==
  LET inexact == TerOr(inexact0, rm.t)
      s0 == Raise([st EXCEPT !.loc.prec = p, !.loc.u = rm.v, !.loc.v = v0,
                             !.loc.inexact = inexact], rm.uf)
  IN  IF IsInf(rm.v)
      THEN Only({ Only({ LoopNegativeOverflow(in, s0, inexact, o, r) :
                         r \in {MpfrSet(o.v, in.rpre, in.rnd_re)} }) :
                  o \in {MpfrMul2ui(Num(0 - 1, 1, 0), Emax, p, in.rnd_re)} })
      ELSE IF ExpField(rm.v) = Emin
      THEN IF in.rnd_re \in {"Z", "N", "U"}
           THEN [Put(s0, RopRe(in), Zero(1))
                   EXCEPT !.pc = "imag", !.loc.inex_re = 1]
           ELSE Only({ [Raise(Put(s0, RopRe(in), r.v), r.uf)
                          EXCEPT !.pc = "imag", !.loc.inex_re = 0 - 1] :
                       r \in {MpfrSet(rm.v, in.rpre, in.rnd_re)} })
      ELSE LoopRound(in, s0, rm.v, inexact, p)

\* lines 284-354: the product of the sum ra and the difference rs, both
\* rounded away from zero to the working precision p
LoopProduct(in, st, p, ra, rs) ==
  LET inexact == TerOr(ra.t, rs.t)
      s0 == Raise([st EXCEPT !.loc.prec = p, !.loc.u = ra.v, !.loc.v = rs.v,
                             !.loc.inexact = inexact,
                             !.loc.prod_sgn = MpfrSgn(ra.v) * MpfrSgn(rs.v)],
                  ra.uf \/ rs.uf)
  IN  IF MpfrSgn(ra.v) = 0 \/ MpfrSgn(rs.v) = 0
      THEN [Put(s0, RopRe(in), Zero(1))
              EXCEPT !.pc = "imag", !.loc.inex_re = 0, !.loc.ok = TRUE]
      ELSE IF MpfrSgn(ra.v) * MpfrSgn(rs.v) > 0
      THEN Only({ LoopPositive(in, s0, rs.v, inexact, p, rm) :
                  rm \in {MpfrMul(ra.v, rs.v, p, "U")} })
      ELSE Only({ LoopNegative(in, s0, rs.v, inexact, p, rm) :
                  rm \in {MpfrMul(ra.v, rs.v, p, "D")} })

\* lines 279-280: u = x + y and v = x - y at the working precision p
LoopSums(in, st, p) ==
  Only({ LoopProduct(in, st, p, ra, rs) :
         ra \in {MpfrAdd(st.mem[XCell], st.mem["op_im"], p, "A")},
         rs \in {MpfrSub(st.mem[XCell], st.mem["op_im"], p, "A")} })

\* lines 268-356: one iteration of the Karatsuba loop
StepLoop(in, st) ==
  Only({ LoopSums(in, st, p) :
         p \in {st.loc.prec + CeilLog2(st.loc.prec) + 5} })

\* lines 364-369: the imaginary part stored, from the product rm and its
\* double r2
ImagStore(in, st, rm, r2) ==
  [Put(st, RopIm(in), IF rm.uf THEN rm.v ELSE r2.v)
     EXCEPT !.pc = "done",
            !.loc.inex_im = IF rm.uf THEN rm.t ELSE TerOr(rm.t, r2.t),
            !.uf = st.uf \/ rm.uf \/ (~rm.uf /\ r2.uf)]

\* lines 362-375: the imaginary part 2 * x * y
StepImag(in, st) ==
  Only({ Only({ ImagStore(in, st, rm, r2) :
                r2 \in {MpfrMul2ui(rm.v, 1, in.rpim, in.rnd_im)} }) :
         rm \in {MpfrMul(st.mem[XCell], st.mem["op_im"], in.rpim,
                         in.rnd_im)} })

\* mpc_fin_p
OpFinite(st) == IsFin(st.mem["op_re"]) /\ IsFin(st.mem["op_im"])

\* the statement mpc_sqr executes next, as a function of its state
Step(in, st) ==
  CASE st.pc = "start" ->
         IF ~OpFinite(st) THEN StepSpecial(in, st)
         ELSE IF IsZero(st.mem["op_im"]) THEN StepAxisIm(in, st)
         ELSE IF IsZero(st.mem["op_re"]) THEN StepAxisRe(in, st)
         ELSE StepCopyX(in, st)
    [] st.pc = "real" ->
         IF Skewed(in, st) THEN StepRealFmma(in, st) ELSE StepLoop(in, st)
    [] st.pc = "loop" -> StepLoop(in, st)
    [] st.pc = "imag" -> StepImag(in, st)
    [] OTHER -> st

\* --------------------------------------------------------- the inputs
\* MPFR_PREC_MIN is 2
RopPrecs == 2 .. PrecRopMax

Regular(p) ==
  { Num(s, m, ex - p) :
      s \in {1, 0 - 1}, m \in Pow2(p - 1) .. (Pow2(p) - 1), ex \in Emin .. Emax }
Specials == {NaN, Inf(1), Inf(0 - 1), Zero(1), Zero(0 - 1)}
Values(p) == Regular(p) \cup Specials

\* a call: both parts of op of precision p; rop of precisions rp[1] and
\* rp[2], or op itself
Call(x, y, p, rp, rr, ri, alias) ==
  [x |-> x, y |-> y, pre |-> p, pim |-> p,
   rpre |-> IF alias THEN p ELSE rp[1], rpim |-> IF alias THEN p ELSE rp[2],
   rnd_re |-> rr, rnd_im |-> ri, alias |-> alias]

\* prod_sgn is the value of mpfr_sgn (u) * mpfr_sgn (v) tested at lines 284
\* and 291 in the last iteration
LocInit ==
  [prec |-> 0, u |-> NaN, v |-> NaN, inexact |-> 0, ok |-> FALSE,
   prod_sgn |-> 0, inex_re |-> 0, inex_im |-> 0]

\* the state on entry of mpc_sqr for the call in
Entry(in) ==
  [pc |-> "start",
   mem |-> [c \in {"op_re", "op_im", "rop_re", "rop_im", "x"} |->
              IF c = "op_re" THEN in.x ELSE IF c = "op_im" THEN in.y ELSE NaN],
   loc |-> LocInit,
   uf |-> FALSE]

\* mpc_sqr runs to its end (return or abort) from state st
RECURSIVE Run(_, _)
Run(in, st) ==
  IF st.pc \in {"done", "abort"} THEN st
  ELSE Only({ Run(in, s2) : s2 \in {Step(in, st)} })

\* what the caller of mpc_sqr observes: the two parts of rop and the signs
\* of the two flags, or only that the process aborted
Result(in, st) ==
  IF st.pc = "abort" THEN [pc |-> "abort"]
  ELSE [pc |-> st.pc, re |-> st.mem[RopRe(in)], im |-> st.mem[RopIm(in)],
        inex_re |-> Sgn(st.loc.inex_re), inex_im |-> Sgn(st.loc.inex_im)]

FmIdle == [pc |-> "idle"]

Cur == [pc |-> pc, mem |-> mem, loc |-> loc, uf |-> uflag]

Becomes(st) ==
  /\ pc' = st.pc
  /\ mem' = st.mem
  /\ loc' = st.loc
  /\ uflag' = st.uf
  /\ UNCHANGED <<inp, fm>>

\* mpc_sqr is entered with the call in
Start(in) ==
  /\ inp = in
  /\ pc = "start"
  /\ mem = Entry(in).mem
  /\ loc = LocInit
  /\ uflag = FALSE
  /\ fm = FmIdle

\* every operand, rop distinct from op
Init ==
  \E rp \in RopPrecs \X RopPrecs, rr \in RndModes, ri \in RndModes :
    \E x \in Values(PrecOpMax), y \in Values(PrecOpMax) :
      Start(Call(x, y, PrecOpMax, rp, rr, ri, FALSE))

Special ==
  /\ pc = "start" /\ ~OpFinite(Cur)
  /\ \E st \in {StepSpecial(inp, Cur)} : Becomes(st)

AxisIm ==
  /\ pc = "start" /\ OpFinite(Cur) /\ IsZero(mem["op_im"])
  /\ \E st \in {StepAxisIm(inp, Cur)} : Becomes(st)

AxisRe ==
  /\ pc = "start" /\ OpFinite(Cur)
  /\ ~IsZero(mem["op_im"]) /\ IsZero(mem["op_re"])
  /\ \E st \in {StepAxisRe(inp, Cur)} : Becomes(st)

CopyX ==
  /\ pc = "start" /\ IsNum(mem["op_re"]) /\ IsNum(mem["op_im"])
  /\ \E st \in {StepCopyX(inp, Cur)} : Becomes(st)

RealFmma ==
  /\ pc = "real" /\ Skewed(inp, Cur)
  /\ \E st \in {StepRealFmma(inp, Cur)} : Becomes(st)

Loop ==
  /\ pc = "loop" \/ (pc = "real" /\ ~Skewed(inp, Cur))
  /\ \E st \in {StepLoop(inp, Cur)} : Becomes(st)

Imag == pc = "imag" /\ \E st \in {StepImag(inp, Cur)} : Becomes(st)

Next == Special \/ AxisIm \/ AxisRe \/ CopyX \/ RealFmma \/ Loop \/ Imag

Spec == Init /\ [][Next]_vars

\* rop is op itself, both parts rounded in the same mode
InitAlias ==
  \E r \in RndModes :
    \E x \in Values(PrecOpMax), y \in Values(PrecOpMax) :
      Start(Call(x, y, PrecOpMax, <<0, 0>>, r, r, TRUE))

SpecAlias == InitAlias /\ [][Next]_vars

\* operands with a NaN or an infinite part
InitSpecial ==
  \E rp \in RopPrecs \X RopPrecs, rr \in RndModes, ri \in RndModes :
    \E x \in Values(PrecOpMax), y \in Values(PrecOpMax), al \in BOOLEAN :
      /\ ~IsFin(x) \/ ~IsFin(y)
      /\ Start(Call(x, y, PrecOpMax, rp, rr, ri, al))

NextSpecial == Special

SpecSpecial == InitSpecial /\ [][NextSpecial]_vars

\* finite operands with a part that is a zero
InitAxis ==
  \E rp \in RopPrecs \X RopPrecs, rr \in RndModes, ri \in RndModes :
    \E x \in Values(PrecOpMax), y \in Values(PrecOpMax), al \in BOOLEAN :
      /\ IsFin(x) /\ IsFin(y)
      /\ IsZero(x) \/ IsZero(y)
      /\ Start(Call(x, y, PrecOpMax, rp, rr, ri, al))

NextAxis == AxisIm \/ AxisRe

SpecAxis == InitAxis /\ [][NextAxis]_vars

\* ----------------------------------------------------- mpfr_fmma by itself
\* a call mpfr_fmma (z, a, b, c, d, sign, rnd) with regular operands of
\* precision 2 (MPFR_PREC_MIN) and z of precision pz; the signs of the two
\* products are those of a and of sign
InitFmma ==
  /\ \E a \in Regular(2), b \in Regular(2), c \in Regular(2),
        d \in Regular(2), sg \in {1, 0 - 1}, pz \in RopPrecs,
        rnd \in RndModes :
       /\ b.s = 1 /\ c.s = 1 /\ d.s = 1
       /\ fm = [pc |-> "call", a |-> a, b |-> b, c |-> c, d |-> d,
                sign |-> sg, pz |-> pz, rnd |-> rnd, z |-> NaN, inex |-> 0]
  /\ inp = Call(Zero(1), Zero(1), 2, <<2, 2>>, "N", "N", FALSE)
  /\ pc = "idle"
  /\ mem = Entry(inp).mem
  /\ loc = LocInit
  /\ uflag = FALSE

FmmaCall ==
  /\ fm.pc = "call"
  /\ \E r \in {Fmma(fm.a, fm.b, fm.c, fm.d, 2, 2, 2, 2, fm.sign, fm.pz,
                    fm.rnd)} :
       fm' = [fm EXCEPT !.pc = "ret", !.z = r.v, !.inex = r.t]
  /\ UNCHANGED <<inp, pc, mem, loc, uflag>>

NextFmma == FmmaCall

SpecFmma == InitFmma /\ [][NextFmma]_vars

\* ------------------------------------------------ what the result should be
General(in) == IsNum(in.x) /\ IsNum(in.y)

\* x^2 - y^2 and 2xy, exactly
TrueRe(in) == ExSub(ExMul(in.x, in.x), ExMul(in.y, in.y))
TrueIm(in) == Scale(ExMul(in.x, in.y), 1)

\* equal as real numbers (the two zeros are the same number)
SameValue(a, b) == a = b \/ (IsZero(a) /\ IsZero(b))

\* sign of (stored - exact) for a stored value and an exact real
\* (2 for a stored NaN, which no flag describes)
ErrSign(stored, exact) ==
  IF IsNan(stored) THEN 2
  ELSE IF IsInf(stored) THEN stored.s
  ELSE ExCmp(stored, exact)

OutRe == mem[RopRe(inp)]
OutIm == mem[RopIm(inp)]

\* the correctly rounded parts of the square
ExpectRe(in) == RoundTo(TrueRe(in), in.rpre, in.rnd_re)
ExpectIm(in) == RoundTo(TrueIm(in), in.rpim, in.rnd_im)

\* the call in with rop distinct from op, of the same precisions
Distinct(in) == [in EXCEPT !.alias = FALSE]

\* the test of line 247 on the operand of the call in
SkewedOperand(in) == Skewed(in, Entry(in))

\* ------------------------------------------------------------------ claims
\* C1: for finite nonzero x and y, the real part mpc_sqr returns is
\* x^2 - y^2 rounded once to the precision of rop->re in the real rounding
\* mode, overflow and underflow included, on both branches.
C1_RealRoundedOnce ==
  (pc = "done" /\ General(inp)) => SameValue(OutRe, ExpectRe(inp).v)

\* C2: for finite nonzero x and y, the imaginary part mpc_sqr returns is
\* 2xy rounded once to the precision of rop->im in the imaginary rounding
\* mode, whether or not x*y underflows or the doubling overflows.
C2_ImagRoundedOnce ==
  (pc = "done" /\ General(inp)) => SameValue(OutIm, ExpectIm(inp).v)

\* C3: for finite nonzero x and y, each of the two returned flags has the
\* sign of (stored part - true part).
C3_FlagsHaveErrorSign ==
  (pc = "done" /\ General(inp)) =>
    /\ Sgn(loc.inex_re) = ErrSign(OutRe, TrueRe(inp))
    /\ Sgn(loc.inex_im) = ErrSign(OutIm, TrueIm(inp))

\* the exact value a*b + sign*c*d of a call of mpfr_fmma
FmmaTrue(f) ==
  LET cd == ExMul(f.c, f.d)
  IN  ExAdd(ExMul(f.a, f.b), IF f.sign > 0 THEN cd ELSE Neg(cd))

\* C4: mpfr_fmma stores a*b + sign*c*d rounded once to the precision of z
\* and returns a flag with the sign of (z - true value), also when partial
\* products overflow or underflow.
C4_FmmaRoundedOnce ==
  fm.pc = "ret" =>
    /\ SameValue(fm.z, RoundTo(FmmaTrue(fm), fm.pz, fm.rnd).v)
    /\ Sgn(fm.inex) = ErrSign(fm.z, FmmaTrue(fm))

\* C5: with rop the same object as op, mpc_sqr ends with the same parts and
\* the same flags as with a distinct rop of the same precisions, and until
\* the last read the operand's real part (through x) and imaginary part
\* still hold the values passed in.
C5_AliasSameResult ==
  /\ pc \in {"done", "abort"} =>
       Result(inp, Cur)
         = Result(Distinct(inp), Run(Distinct(inp), Entry(Distinct(inp))))
  /\ pc \in {"real", "loop", "imag"} =>
       mem[XCell] = inp.x /\ mem["op_im"] = inp.y

\* C5 happens: an aliased call on a general operand has returned and both
\* parts of the operand have been overwritten by different values
C5_AliasedCallReturned ==
  /\ pc = "done" /\ inp.alias /\ General(inp)
  /\ mem["op_re"] # inp.x /\ mem["op_im"] # inp.y
  /\ loc.prec > MaxPrecRop(inp)

\* C6: an operand with a NaN or infinite part gives the result of the
\* special-value table whatever the rounding modes, with both flags 0.
C6_SpecialValueTable ==
  pc = "done" =>
    LET x == inp.x
        y == inp.y
    IN  /\ loc.inex_re = 0 /\ loc.inex_im = 0
        /\ (IsNan(x) \/ IsNan(y)) => (IsNan(OutRe) /\ IsNan(OutIm))
        /\ (IsInf(x) /\ IsFin(y)) =>
             /\ OutRe = Inf(1)
             /\ OutIm = IF IsZero(y) THEN NaN ELSE Inf(x.s * y.s)
        /\ (IsInf(y) /\ IsFin(x)) =>
             /\ OutRe = Inf(0 - 1)
             /\ OutIm = IF IsZero(x) THEN NaN ELSE Inf(x.s * y.s)
        /\ (IsInf(x) /\ IsInf(y)) =>
             (IsNan(OutRe) /\ OutIm = Inf(x.s * y.s))

\* C6 happens: an infinite part paired with a negative regular one has
\* given an infinite imaginary part of the opposite sign
C6_InfiniteTimesNegative ==
  /\ pc = "done" /\ IsInf(inp.x) /\ IsNum(inp.y) /\ inp.y.s < 0
  /\ OutIm = Inf(0 - inp.x.s)

\* C7: a finite operand on an axis: imaginary part zero gives x^2 rounded
\* once in the real mode; real part zero and imaginary part nonzero gives
\* -(y^2) rounded once in the real mode; the flag has the sign of the
\* error; the imaginary part returned is an exact zero, flag 0, negative
\* exactly when the sign bits of x and y differ.
C7_AxisOperand ==
  pc = "done" =>
    LET x == inp.x
        y == inp.y
        xx == ExMul(x, x)
        yy == Neg(ExMul(y, y))
    IN  /\ IsZero(y) =>
             /\ SameValue(OutRe, RoundTo(xx, inp.rpre, inp.rnd_re).v)
             /\ Sgn(loc.inex_re) = ErrSign(OutRe, xx)
        /\ (IsZero(x) /\ ~IsZero(y)) =>
             /\ SameValue(OutRe, RoundTo(yy, inp.rpre, inp.rnd_re).v)
             /\ Sgn(loc.inex_re) = ErrSign(OutRe, yy)
        /\ IsZero(OutIm) /\ loc.inex_im = 0
        /\ SignBit(OutIm) = (SignBit(x) # SignBit(y))

\* C7 happens: a purely imaginary operand whose square is not representable
\* was squared rounding up, and the zero returned is negative
C7_ImaginaryAxisInexact ==
  /\ pc = "done" /\ IsZero(inp.x) /\ IsNum(inp.y)
  /\ inp.rnd_re = "U" /\ loc.inex_re # 0 /\ IsNum(OutRe)
  /\ SignBit(OutIm)

\* C8: when the exponents of x and y are close (the loop is taken), the
\* real part and the sign of the real flag are those mpfr_fmma (x, x, y,
\* y, -1) gives at the same precision and mode.
C8_LoopAgreesWithFmma ==
  (pc = "done" /\ General(inp) /\ ~SkewedOperand(inp)) =>
    LET r == Fmma(inp.x, inp.x, inp.y, inp.y, inp.pre, inp.pre, inp.pim,
                  inp.pim, 0 - 1, inp.rpre, inp.rnd_re)
    IN  SameValue(OutRe, r.v) /\ Sgn(loc.inex_re) = Sgn(r.t)

\* C9: once the loop has run an iteration (the working precision has
\* grown), either another iteration follows because ok is false, or the
\* loop has been left toward the imaginary part by one of its exits: the
\* loop never stops mpc_sqr.
C9_LoopTerminates ==
  (General(inp) /\ loc.prec > MaxPrecRop(inp)) =>
    \/ pc = "loop" /\ ~loc.ok
    \/ pc \in {"imag", "done"}

\* C10: in an iteration with u * v > 0 the product rounded up never has
\* exponent emin (the assertion of line 297 holds).
C10_AssertionHolds == loc.prod_sgn > 0 => ExpField(loc.u) # Emin
====
